---- MODULE Spec2Model ----
(***************************************************************************)
(* The LMS's models (src/core/models.py): the assessment engine (quizzes,  *)
(* attempts, answers and auto-grading), profiles, terms and submissions.   *)
(*                                                                         *)
(* SpecStart     concurrent QuizAttempt creation (start_attempt): every    *)
(*               database query of QuizAttempt.save is one step, because   *)
(*               the code opens no transaction and takes no lock.          *)
(* SpecGrade     one attempt over a two-question quiz: recording answers,  *)
(*               submitting, auto_grade_all and calculate_marks.           *)
(* SpecAutoGrade the same operations over a one-question quiz with up to   *)
(*               MaxChoices choices and marks in 0..MaxMarks, for the      *)
(*               per-answer grading rule StudentAnswer.auto_grade.         *)
(* SpecAuthor    a teacher's saves of questions, choices and answer keys,  *)
(*               served one at a time, and changes of the quiz's status.   *)
(* SpecRace      concurrent saves of questions, choices and answer keys,   *)
(*               one request per worker, every query a step.               *)
(* SpecAnswer    recording answers and deleting choices.                   *)
(* SpecQuiz      writes of the quiz's start and end time.                  *)
(* SpecRegrade   recording answers, deleting choices and grading again,    *)
(*               one request at a time.                                    *)
(* SpecOverwrite recording answers while auto_grade_all runs.              *)
(* SpecGradeRace concurrent auto_grade_all runs on one attempt.            *)
(* SpecRemark    grading, then edits of the quiz's status and of a         *)
(*               question's marks, then calculate_marks.                   *)
(*                                                                         *)
(* Other models of src/core/models.py and the handlers of                  *)
(* src/core/signals.py:                                                    *)
(* SpecProfile   creation of Student, Teacher, Admin and Principal rows    *)
(*               and the post_save handlers that number them.              *)
(* SpecTerm      concurrent saves of AcademicTerm rows.                    *)
(* SpecSubmission  creation and re-saves of assignment Submissions.        *)
(*                                                                         *)
(* Decimal columns (max_digits=5, decimal_places=2) are integers in        *)
(* hundredths of a mark.                                                   *)
(***************************************************************************)
EXTENDS Integers, FiniteSets, Sequences, TLC

\* ------------------------------------------------------------------ bounds
MaxAttempts == 2
NumProcs == 2
MaxTime == 3
MaxChoices == 4
MaxMarks == 9

\* A nullable column holds a set of at most one value: None is SQL NULL
None == {}
Some(v) == {v}
Val(o) == CHOOSE v \in o : TRUE

\* Quiz.StatusChoices
DRAFT == "draft"
PUBLISHED == "published"
CLOSED == "closed"
QuizStatuses == {DRAFT, PUBLISHED, CLOSED}

\* QuizAttempt.StatusChoices
IN_PROGRESS == "in_progress"
SUBMITTED == "submitted"
GRADED == "graded"

\* Question.QuestionType
MCQ_SINGLE == "mcq_single"
MCQ_MULTIPLE == "mcq_multiple"
TRUE_FALSE == "true_false"
SHORT_ANSWER == "short_answer"
QuestionTypes == {MCQ_SINGLE, MCQ_MULTIPLE, TRUE_FALSE, SHORT_ANSWER}

Students == {"s1", "s2"}
Procs == 1..NumProcs

VARIABLES
    now,         \* timezone.now()
    quiz,        \* the Quiz row: status, start_time, end_time, max_attempts
    attempts,    \* the QuizAttempt table: a set of rows
    nextPk,      \* the next primary key of the QuizAttempt table
    proc,        \* per request running QuizAttempt(...).save(): its position and instance
    questions,   \* the Question table: id -> row
    choices,     \* the Choice table: id -> row
    answer_keys, \* the ShortAnswerKey table: a set of rows
    answers,     \* the StudentAnswer table: question id -> row (unique per attempt and question)
    scanOrder,   \* the order in which the database returns the StudentAnswer rows
    grader,      \* the request running auto_grade_all: its position, its loaded
                 \* instances, and whether it has changed a stored answer
    runs,        \* the stored state at the end of the latest consecutive auto_grade_all runs
    last,        \* the operation that acted last and how it ended
    users,       \* the User table: id -> row (school_id)
    profiles,    \* the Student, Teacher, Admin and Principal tables: a set of rows
    terms,       \* the AcademicTerm table: id -> row (is_current)
    assignment,  \* the Assignment row: due_date, max_attempts, total_marks
    submissions  \* the Submission table: id -> row

vars == <<now, quiz, attempts, nextPk, proc, questions, choices, answer_keys,
          answers, scanOrder, grader, runs, last,
          users, profiles, terms, assignment, submissions>>

startVars == <<now, quiz, nextPk, proc>>
gradeVars == <<questions, choices, answer_keys, answers, scanOrder, grader, runs>>
schoolVars == <<users, profiles, terms, assignment, submissions>>

\* No user, profile, term or submission is stored
NoSchoolRows ==
    /\ users = <<>>
    /\ profiles = {}
    /\ terms = <<>>
    /\ assignment = [due_date |-> None, max_attempts |-> 1, total_marks |-> 1]
    /\ submissions = <<>>

\* ------------------------------------------------------------ Quiz helpers

\* Quiz.is_active
is_activeNoEnd(q, t) ==
    IF q.status = PUBLISHED
    THEN IF q.start_time # None /\ q.end_time # None
         THEN Val(q.start_time) <= t
         ELSE FALSE
    ELSE FALSE
is_active(q, t) ==
    IF q.status = PUBLISHED
    THEN IF q.start_time # None /\ q.end_time # None
         THEN Val(q.start_time) <= t /\ t <= Val(q.end_time)
         ELSE FALSE
    ELSE FALSE

\* QuizAttempt.objects.filter(quiz=self.quiz, student=self.student)
AttemptsOf(s) == {a \in attempts : a.student = s}

\* QuizAttempt.objects.filter(quiz=..., student=...).count()
attempt_count(s) == Cardinality(AttemptsOf(s))

\* The limit test of QuizAttempt.clean: attempt_count >= self.quiz.max_attempts
LimitReachedOffByOne(count, q) == count > q.max_attempts
LimitReached(count, q) == count >= q.max_attempts

\* Meta.unique_together = ['quiz', 'student', 'attempt_number'], as
\* full_clean's validate_unique query and as the database constraint
unique_togetherOmitted(s, n) == FALSE
unique_together(s, n) == \E a \in attempts : a.student = s /\ a.attempt_number = n

\* The instance QuizAttempt(quiz=quiz, student=s): field defaults
NewAttempt(s) ==
    [student |-> s, attempt_number |-> 1, status |-> IN_PROGRESS,
     marks_obtained |-> None, submitted_at |-> None]

NoResult == "none"
IdleGrader ==
    [pc |-> "idle", pending |-> {}, snap |-> <<>>, wrote |-> FALSE,
     att |-> [pk |-> 1] @@ NewAttempt("s1"),
     result |-> NoResult]
IdleProc == [pc |-> "idle", inst |-> NewAttempt("s1"), result |-> NoResult]
Returned(res) == [IdleProc EXCEPT !.result = res]

\* ------------------------------------------------- start_attempt (SpecStart)

\* QuizAttempt(quiz, student).save() up to the end of clean():
\* save's submitted_at stamp does not apply (status is in_progress),
\* full_clean calls clean, which tests is_active and the attempt limit
\* and assigns attempt_number.
StartAttemptClean(p, s) ==
    /\ proc[p].pc = "idle"
    /\ LET count == attempt_count(s) IN
       IF ~is_active(quiz, now) \/ LimitReached(count, quiz)
       THEN proc' = [proc EXCEPT ![p] = Returned("ValidationError")]
       ELSE proc' = [proc EXCEPT ![p] =
                       [pc |-> "validate_unique",
                        inst |-> [NewAttempt(s) EXCEPT !.attempt_number = count + 1],
                        result |-> NoResult]]
    /\ last' = [op |-> "start_attempt.clean", by |-> p, arg |-> s]
    /\ UNCHANGED <<now, quiz, attempts, nextPk>>
    /\ UNCHANGED gradeVars
    /\ UNCHANGED schoolVars

\* full_clean's validate_unique: a query for a row with the same
\* (quiz, student, attempt_number)
StartAttemptValidateUnique(p) ==
    /\ proc[p].pc = "validate_unique"
    /\ IF unique_together(proc[p].inst.student, proc[p].inst.attempt_number)
       THEN proc' = [proc EXCEPT ![p] = Returned("ValidationError")]
       ELSE proc' = [proc EXCEPT ![p].pc = "insert"]
    /\ last' = [op |-> "start_attempt.validate_unique", by |-> p,
                arg |-> proc[p].inst.student]
    /\ UNCHANGED <<now, quiz, attempts, nextPk>>
    /\ UNCHANGED gradeVars
    /\ UNCHANGED schoolVars

\* super().save(): the INSERT, refused by the unique constraint
StartAttemptInsert(p) ==
    /\ proc[p].pc = "insert"
    /\ IF unique_together(proc[p].inst.student, proc[p].inst.attempt_number)
       THEN /\ proc' = [proc EXCEPT ![p] = Returned("IntegrityError")]
            /\ UNCHANGED <<attempts, nextPk>>
       ELSE /\ attempts' = attempts \cup
                  {[pk |-> nextPk] @@ proc[p].inst}
            /\ nextPk' = nextPk + 1
            /\ proc' = [proc EXCEPT ![p] = Returned("created")]
    /\ last' = [op |-> "start_attempt.insert", by |-> p,
                arg |-> proc[p].inst.student]
    /\ UNCHANGED <<now, quiz>>
    /\ UNCHANGED gradeVars
    /\ UNCHANGED schoolVars

\* The clock advances
Tick ==
    /\ now < MaxTime
    /\ now' = now + 1
    /\ last' = [op |-> "tick", by |-> 0, arg |-> ""]
    /\ UNCHANGED <<quiz, attempts, nextPk, proc>>
    /\ UNCHANGED gradeVars
    /\ UNCHANGED schoolVars

\* The quiz's status is edited from outside (Draft -> Published -> Closed
\* is not enforced by the model class)
SetQuizStatus(st) ==
    /\ quiz.status # st
    /\ quiz' = [quiz EXCEPT !.status = st]
    /\ last' = [op |-> "set_quiz_status", by |-> 0, arg |-> st]
    /\ UNCHANGED <<now, attempts, nextPk, proc>>
    /\ UNCHANGED gradeVars
    /\ UNCHANGED schoolVars

InitStart ==
    /\ NoSchoolRows
    /\ now = 0
    /\ quiz \in [status : {DRAFT}, start_time : {None, Some(1)},
                 end_time : {None, Some(2)},
                 max_attempts : 0..MaxAttempts]
    /\ attempts = {}
    /\ nextPk = 1
    /\ proc = [p \in Procs |-> IdleProc]
    /\ questions = <<>>
    /\ choices = <<>>
    /\ answer_keys = {}
    /\ answers = <<>>
    /\ scanOrder = <<>>
    /\ grader = IdleGrader
    /\ runs = <<>>
    /\ last = [op |-> "init", by |-> 0, arg |-> ""]

NextStart ==
    \/ \E p \in Procs, s \in Students : StartAttemptClean(p, s)
    \/ \E p \in Procs : StartAttemptValidateUnique(p)
    \/ \E p \in Procs : StartAttemptInsert(p)
    \/ Tick
    \/ \E st \in QuizStatuses : SetQuizStatus(st)

SpecStart == InitStart /\ [][NextStart]_vars

\* ------------------------------------------------------------------ text

Whitespace == {" "}

\* str.lower() on one character; the upper-case letters in use are A, T, F
LowerChar(c) ==
    IF c = "A" THEN "a" ELSE IF c = "T" THEN "t" ELSE IF c = "F" THEN "f" ELSE c

\* str.lower()
Lower(t) == [i \in 1..Len(t) |-> LowerChar(t[i])]

\* str.strip(): drop leading, then trailing whitespace
RECURSIVE LStrip(_)
LStrip(t) == IF t # <<>> /\ Head(t) \in Whitespace THEN LStrip(Tail(t)) ELSE t

RECURSIVE RStrip(_)
RStrip(t) ==
    IF t # <<>> /\ t[Len(t)] \in Whitespace
    THEN RStrip(SubSeq(t, 1, Len(t) - 1))
    ELSE t

Strip(t) == RStrip(LStrip(t))

\* self.text_answer.strip().lower()
NormalizeStripOnly(t) == Strip(t)
Normalize(t) == Lower(Strip(t))

\* Python truth value of a nullable text column: None and "" are false
Truthy(text) == text # None /\ Val(text) # <<>>

\* Texts a student submits
TextSamples == {<<>>, <<" ", "A", " ">>, <<"b">>}

\* Texts of stored answer keys (normalized by ShortAnswerKey.save)
KeySamples == {<<"a">>}

\* --------------------------------------------------------- decimal columns

\* DecimalField(max_digits=5, decimal_places=2): the largest value, in
\* hundredths
DecimalMax == 99999

\* An integer number of marks in hundredths
Hundredths(m) == 100 * m

\* DecimalField.clean of an int or Decimal value v (in hundredths):
\* at most 3 digits before the decimal point
DecimalValid(v) == -DecimalMax <= v /\ v <= DecimalMax

\* partial_marks = (len(correct_selected) - len(wrong_selected)) * (marks / total_correct)
\* is a Python float for n = the difference, m = marks, tc = total_correct > 0.
\* DecimalField.to_python turns a float into a Decimal with
\* Context(prec=5).create_decimal_from_float: a float that is an exact
\* multiple of 0.25 keeps its digits; any other float is rounded to 5
\* significant digits, which leaves more than 2 decimal places (refused by
\* the DecimalValidator) unless the value is at least 100.
FloatExact(n, m, tc) == (4 * n * m) % tc = 0
FloatDecimalValid(n, m, tc) ==
    IF FloatExact(n, m, tc)
    THEN DecimalValid((100 * n * m) \div tc)
    ELSE 100 * tc <= n * m /\ n * m < 1000 * tc
FloatDecimalValue(n, m, tc) ==
    IF FloatExact(n, m, tc)
    THEN (100 * n * m) \div tc
    ELSE (200 * n * m + tc) \div (2 * tc)

\* ------------------------------------------------------------ ground truth

QIds == DOMAIN questions
CIds == DOMAIN choices

\* question.choices
ChoicesOf(q) == {c \in CIds : choices[c].question = q}

\* Question.correct_choices
correct_choices(q) == {c \in ChoicesOf(q) : choices[c].is_correct}

\* question.answer_keys.values_list('text', flat=True)
accepted_answers(q) == {k.text : k \in {x \in answer_keys : x.question = q}}

\* ------------------------------------------------------------ StudentAnswer

\* StudentAnswer.clean on a row: TRUE when no ValidationError is raised
StudentAnswerClean(row) ==
    LET t == questions[row.question].question_type IN
    /\ ~(row.selected_choice # None
         /\ choices[Val(row.selected_choice)].question # row.question)
    /\ t = MCQ_SINGLE => (row.selected_choice # None /\ ~Truthy(row.text_answer))
    /\ t = TRUE_FALSE => (row.selected_choice # None /\ ~Truthy(row.text_answer))
    /\ t = SHORT_ANSWER => (Truthy(row.text_answer) /\ row.selected_choice = None)

\* StudentAnswer.save: full_clean (clean_fields on marks_awarded, clean),
\* then the write of the row. The outcome and the row written.
StudentAnswerSave(row) ==
    IF row.marks_awarded # None /\ ~DecimalValid(Val(row.marks_awarded))
    THEN [outcome |-> "ValidationError", row |-> row]
    ELSE IF ~StudentAnswerClean(row)
    THEN [outcome |-> "ValidationError", row |-> row]
    ELSE [outcome |-> "saved", row |-> row]

Graded(row, ic, m) ==
    [row EXCEPT !.is_correct = Some(ic), !.marks_awarded = Some(m)]

\* The MCQ_MULTIPLE branch of StudentAnswer.auto_grade; S is the current
\* content of self.selected_choices
AutoGradeMultiple(row, S) ==
    LET C == correct_choices(row.question)
        m == questions[row.question].marks
        n == Cardinality(S \cap C) - Cardinality(S \ C)
        tc == Cardinality(C)
    IN  IF S = {}
        THEN StudentAnswerSave(Graded(row, FALSE, 0))
        ELSE IF S = C
        THEN StudentAnswerSave(Graded(row, TRUE, Hundredths(m)))
        ELSE IF tc = 0
        THEN [outcome |-> "ZeroDivisionError", row |-> row]
        ELSE IF n * m <= 0
        THEN StudentAnswerSave(Graded(row, FALSE, 0))
        ELSE IF ~FloatDecimalValid(n, m, tc)
        THEN [outcome |-> "ValidationError", row |-> row]
        ELSE StudentAnswerSave(Graded(row, FALSE, FloatDecimalValue(n, m, tc)))

\* StudentAnswer.auto_grade on the loaded instance row; S is the current
\* content of self.selected_choices. The outcome and the row written.
auto_grade(row, S) ==
    LET t == questions[row.question].question_type
        m == questions[row.question].marks
    IN  IF t \in {MCQ_SINGLE, TRUE_FALSE}
        THEN IF row.selected_choice # None
             THEN LET ic == choices[Val(row.selected_choice)].is_correct IN
                  StudentAnswerSave(Graded(row, ic, IF ic THEN Hundredths(m) ELSE 0))
             ELSE [outcome |-> "skipped", row |-> row]
        ELSE IF t = MCQ_MULTIPLE
        THEN AutoGradeMultiple(row, S)
        ELSE IF ~Truthy(row.text_answer)
        THEN StudentAnswerSave(Graded(row, FALSE, 0))
        ELSE LET ic == Normalize(Val(row.text_answer)) \in accepted_answers(row.question) IN
             StudentAnswerSave(Graded(row, ic, IF ic THEN Hundredths(m) ELSE 0))

\* ------------------------------------------------------------- QuizAttempt

\* The attempt graded in SpecGrade and SpecAutoGrade
TheAttempt == CHOOSE a \in attempts : a.pk = 1

RECURSIVE SumOver(_, _)
SumOver(ans, Q) ==
    IF Q = {} THEN 0
    ELSE LET q == CHOOSE x \in Q : TRUE IN
         (IF ans[q].marks_awarded = None THEN 0 ELSE Val(ans[q].marks_awarded))
         + SumOver(ans, Q \ {q})

\* self.answers.aggregate(total=Sum('marks_awarded'))['total'] or 0
SumMarksFirstOnly(ans) ==
    IF DOMAIN ans = {} THEN 0
    ELSE SumOver(ans, {CHOOSE x \in DOMAIN ans : TRUE})
SumMarks(ans) == SumOver(ans, DOMAIN ans)

\* QuizAttempt.is_fully_graded
is_fully_graded(ans) == ~\E q \in DOMAIN ans : ans[q].marks_awarded = None

\* QuizAttempt.save of an existing row inst at time t: stamp submitted_at,
\* full_clean (clean returns at once for a stored row), write
AttemptSave(inst, t) ==
    LET stamped == IF inst.status = SUBMITTED /\ inst.submitted_at = None
                   THEN [inst EXCEPT !.submitted_at = Some(t)]
                   ELSE inst
    IN  IF stamped.marks_obtained # None /\ ~DecimalValid(Val(stamped.marks_obtained))
        THEN [outcome |-> "ValidationError", row |-> inst]
        ELSE [outcome |-> "saved", row |-> stamped]

\* QuizAttempt.calculate_marks on the loaded instance inst, over the
\* stored answers
calculate_marksIncremental(inst, ans, t) ==
    AttemptSave([inst EXCEPT
                   !.marks_obtained =
                       Some((IF @ = None THEN 0 ELSE Val(@)) + SumMarks(ans)),
                   !.status = IF is_fully_graded(ans) THEN GRADED ELSE SUBMITTED], t)
calculate_marks(inst, ans, t) ==
    AttemptSave([inst EXCEPT
                   !.marks_obtained = Some(SumMarks(ans)),
                   !.status = IF is_fully_graded(ans) THEN GRADED ELSE SUBMITTED], t)

\* The UPDATE of an attempt row
WriteAttempt(row) == {a \in attempts : a.pk # row.pk} \cup {row}

\* ------------------------------------------- answering and grading (SpecGrade)

\* What a caller passes to recordAnswer for question q: one of the
\* question's choices, a set of them, a text, nothing, or a choice
\* together with a text
Responses(q) ==
    {[selected_choice |-> Some(c), selected_choices |-> {}, text_answer |-> tx] :
        c \in CIds, tx \in {None, Some(<<"b">>)}}
    \cup {[selected_choice |-> None, selected_choices |-> S, text_answer |-> None] :
        S \in IF questions[q].question_type = MCQ_MULTIPLE
              THEN SUBSET ChoicesOf(q) ELSE {{}}}
    \cup {[selected_choice |-> None, selected_choices |-> {}, text_answer |-> Some(t)] :
        t \in TextSamples}

\* The row recordAnswer saves for question q: a new StudentAnswer, or the
\* stored one with the response replaced
ResponseRow(q, r) ==
    IF q \in DOMAIN answers
    THEN [answers[q] EXCEPT !.selected_choice = r.selected_choice,
                            !.selected_choices = r.selected_choices,
                            !.text_answer = r.text_answer]
    ELSE [question |-> q, selected_choice |-> r.selected_choice,
          selected_choices |-> r.selected_choices, text_answer |-> r.text_answer,
          is_correct |-> None, marks_awarded |-> None]

\* The write of a StudentAnswer row
WriteAnswer(row) ==
    [q \in DOMAIN answers \cup {row.question} |->
        IF q = row.question THEN row ELSE answers[q]]

\* recordAnswer: StudentAnswer.save() of the response, then
\* selected_choices.set(...)
RecordAnswer(q, r) ==
    /\ q \in QIds
    /\ LET res == StudentAnswerSave(ResponseRow(q, r)) IN
       IF res.outcome = "saved"
       THEN /\ answers' = WriteAnswer(res.row)
            /\ runs' = IF answers' = answers THEN runs ELSE <<>>
       ELSE UNCHANGED <<answers, runs>>
    /\ last' = [op |-> "record_answer", by |-> 0, arg |-> ""]
    /\ UNCHANGED <<questions, choices, answer_keys, scanOrder, grader, attempts>>
    /\ UNCHANGED startVars
    /\ UNCHANGED schoolVars

\* submit: the attempt is loaded, its status set to Submitted, and saved
Submit ==
    /\ grader.pc = "idle"
    /\ LET res == AttemptSave([TheAttempt EXCEPT !.status = SUBMITTED], now) IN
       attempts' = IF res.outcome = "saved" THEN WriteAttempt(res.row) ELSE attempts
    /\ runs' = IF attempts' = attempts THEN runs ELSE <<>>
    /\ last' = [op |-> "submit", by |-> 0, arg |-> ""]
    /\ UNCHANGED <<questions, choices, answer_keys, scanOrder, answers, grader>>
    /\ UNCHANGED startVars
    /\ UNCHANGED schoolVars

\* recompute: the attempt is loaded and calculate_marks() called on it
Recompute ==
    /\ grader.pc = "idle"
    /\ LET res == calculate_marks(TheAttempt, answers, now) IN
       attempts' = IF res.outcome = "saved" THEN WriteAttempt(res.row) ELSE attempts
    /\ runs' = IF attempts' = attempts THEN runs ELSE <<>>
    /\ last' = [op |-> "calculate_marks", by |-> 0, arg |-> ""]
    /\ UNCHANGED <<questions, choices, answer_keys, scanOrder, answers, grader>>
    /\ UNCHANGED startVars
    /\ UNCHANGED schoolVars

\* The stored state a run of auto_grade_all leaves behind
StoredState(ans, atts) == [answers |-> ans, attempts |-> atts]

\* runs after a run of auto_grade_all has ended in the stored state st
RunEnded(st) == IF runs = <<>> THEN <<st>> ELSE <<runs[Len(runs)], st>>

\* The loaded answer the loop of auto_grade_all grades next: the first of
\* the pending ones in the order of the scan
NextInScan(pending) ==
    scanOrder[CHOOSE i \in 1..Len(scanOrder) :
                 /\ scanOrder[i] \in pending
                 /\ \A j \in 1..(i - 1) : scanOrder[j] \notin pending]

\* auto_grade_all, the query of the loop header: the attempt instance and
\* its answers are loaded. The queryset has no ORDER BY: the rows come in
\* an order of the database's choosing, the same for every scan.
GradeAllBegin ==
    /\ grader.pc = "idle"
    /\ grader' = [pc |-> "grading", pending |-> DOMAIN answers, snap |-> answers,
                  wrote |-> FALSE,
                  att |-> TheAttempt, result |-> NoResult]
    /\ last' = [op |-> "auto_grade_all", by |-> 0, arg |-> ""]
    /\ UNCHANGED <<questions, choices, answer_keys, scanOrder, answers, runs, attempts>>
    /\ UNCHANGED startVars
    /\ UNCHANGED schoolVars

\* auto_grade_all, one iteration of the loop: answer.auto_grade() on a
\* loaded answer; an exception ends the run
GradeAnswer(q) ==
    /\ grader.pc = "grading"
    /\ grader.pending # {}
    /\ q = NextInScan(grader.pending)
    /\ LET S == IF q \in DOMAIN answers THEN answers[q].selected_choices ELSE {}
           res == auto_grade(grader.snap[q], S)
       IN  /\ answers' = IF res.outcome = "saved"
                         THEN WriteAnswer([res.row EXCEPT !.selected_choices = S])
                         ELSE answers
           /\ IF res.outcome \in {"saved", "skipped"}
              THEN /\ grader' = [grader EXCEPT
                                    !.wrote = @ \/ answers' # answers,
                                    !.pending = @ \ {q},
                                    !.snap = [x \in grader.pending \ {q} |-> @[x]]]
                   /\ UNCHANGED runs
              ELSE /\ grader' = [IdleGrader EXCEPT !.result = res.outcome]
                   /\ runs' = RunEnded(StoredState(answers, attempts))
    /\ last' = [op |-> "auto_grade", by |-> 0, arg |-> ""]
    /\ UNCHANGED <<questions, choices, answer_keys, scanOrder, attempts>>
    /\ UNCHANGED startVars
    /\ UNCHANGED schoolVars

\* auto_grade_all, after the loop: self.calculate_marks() on the attempt
\* instance loaded at the beginning
GradeCalculate ==
    /\ grader.pc = "grading"
    /\ grader.pending = {}
    /\ LET res == calculate_marks(grader.att, answers, now) IN
       /\ attempts' = IF res.outcome = "saved" THEN WriteAttempt(res.row) ELSE attempts
       /\ grader' = [IdleGrader EXCEPT !.result = res.outcome]
    /\ runs' = RunEnded(StoredState(answers, attempts'))
    /\ last' = [op |-> "auto_grade_all.calculate_marks", by |-> 0, arg |-> ""]
    /\ UNCHANGED <<questions, choices, answer_keys, scanOrder, answers>>
    /\ UNCHANGED startVars
    /\ UNCHANGED schoolVars

\* Ground truth a quiz can hold: choices only on choice questions, at most
\* one correct choice on a single-choice question, at most two choices on
\* a true/false question, answer keys only on short-answer questions
ValidGroundTruth(qs, cs, ks) ==
    /\ \A c \in DOMAIN cs :
          /\ cs[c].question \in DOMAIN qs
          /\ qs[cs[c].question].question_type # SHORT_ANSWER
    /\ \A q \in DOMAIN qs :
          LET own == {c \in DOMAIN cs : cs[c].question = q} IN
          /\ qs[q].question_type = MCQ_SINGLE =>
                Cardinality({c \in own : cs[c].is_correct}) <= 1
          /\ qs[q].question_type = TRUE_FALSE => Cardinality(own) <= 2
    /\ \A k \in ks : qs[k.question].question_type = SHORT_ANSWER

\* A published, active quiz with one attempt in progress
InitAttempt ==
    /\ NoSchoolRows
    /\ now = MaxTime - 1
    /\ quiz = [status |-> PUBLISHED, start_time |-> Some(1), end_time |-> Some(MaxTime),
               max_attempts |-> 1]
    /\ attempts = {[pk |-> 1] @@ NewAttempt("s1")}
    /\ nextPk = 2
    /\ proc = [p \in Procs |-> IdleProc]
    /\ grader = IdleGrader
    /\ runs = <<>>
    /\ last = [op |-> "init", by |-> 0, arg |-> ""]

\* Owner of choice c in a quiz of nq questions
ChoiceOwner(c, nq) == ((c - 1) % nq) + 1

\* The labels a true/false question accepts, as the teacher typed them
TrueLabel == <<"T", "r", "u", "e">>
FalseLabel == <<"f", "a", "l", "s", "e">>

\* The Choice row number c of question q: labelled True or false, saved
\* in the order of the keys
ChoiceRow(q, flag, c) ==
    [question |-> q, is_correct |-> flag,
     answer |-> IF c % 2 = 1 THEN TrueLabel ELSE FalseLabel, order |-> c]

\* SpecGrade: a quiz of a single-choice question worth 1 mark and a
\* multiple-choice question worth 2 marks, each with two choices whose
\* flags are free; no answer recorded yet. The requests are served one at
\* a time.
InitGrade ==
    /\ InitAttempt
    /\ answers = <<>>
    /\ questions = [q \in {1, 2} |->
                       [question_type |-> IF q = 1 THEN MCQ_SINGLE ELSE MCQ_MULTIPLE,
                        marks |-> q, order |-> q]]
    /\ \E D \in SUBSET (1..4) : \E flag \in [D -> BOOLEAN] :
          choices = [c \in D |-> ChoiceRow(ChoiceOwner(c, 2), flag[c], c)]
    /\ \A q \in QIds : questions[q].question_type # SHORT_ANSWER
                         => Cardinality(ChoicesOf(q)) = 2
    /\ answer_keys \in SUBSET [pk : {1}, question : {1, 2}, text : KeySamples]
    /\ ValidGroundTruth(questions, choices, answer_keys)
    /\ scanOrder \in {<<1, 2>>, <<2, 1>>}

\* A stored answer to question q: a response StudentAnswer.clean accepts,
\* not graded yet. A single-choice or true/false answer can also have
\* lost its choice (selected_choice is on_delete=SET_NULL), and a
\* short-answer one can be without text: it was saved, with nothing
\* selected, while the question was a multiple-choice one (Question.save
\* lets question_type be edited, StudentAnswer.clean checks no shape on
\* MCQ_MULTIPLE).
StoredAnswers(q) ==
    LET rows == {[question |-> q, selected_choice |-> r.selected_choice,
                  selected_choices |-> r.selected_choices,
                  text_answer |-> r.text_answer,
                  is_correct |-> None, marks_awarded |-> None] : r \in Responses(q)}
    IN  {row \in rows :
            \/ StudentAnswerClean(row)
            \/ /\ questions[q].question_type \in {MCQ_SINGLE, TRUE_FALSE}
               /\ row.selected_choice = None /\ row.text_answer = None
            \/ /\ questions[q].question_type = SHORT_ANSWER
               /\ row.selected_choice = None /\ ~Truthy(row.text_answer)}

\* SpecAutoGrade: one question of any type with marks in 0..MaxMarks and
\* MaxChoices choices (two on a true/false question), and one stored answer
InitAutoGrade ==
    /\ InitAttempt
    /\ questions \in [{1} -> [question_type : QuestionTypes, marks : 0..MaxMarks,
                               order : {1}]]
    /\ \E D \in {{}, 1..2, 1..MaxChoices} : \E flag \in [D -> BOOLEAN] :
          choices = [c \in D |-> ChoiceRow(1, flag[c], c)]
    /\ CIds = IF questions[1].question_type = SHORT_ANSWER THEN {}
              ELSE IF questions[1].question_type = TRUE_FALSE THEN 1..2
              ELSE 1..MaxChoices
    /\ answer_keys \in SUBSET [pk : {1}, question : {1}, text : KeySamples]
    /\ ValidGroundTruth(questions, choices, answer_keys)
    /\ answers \in [{1} -> StoredAnswers(1)]
    /\ scanOrder = <<1>>

NextGrade ==
    \/ \E q \in QIds : \E r \in Responses(q) : grader.pc = "idle" /\ RecordAnswer(q, r)
    \/ Submit
    \/ Recompute
    \/ GradeAllBegin
    \/ \E q \in QIds : GradeAnswer(q)
    \/ GradeCalculate
    \/ Tick

NextAutoGrade ==
    \/ GradeAllBegin
    \/ \E q \in QIds : GradeAnswer(q)
    \/ GradeCalculate

SpecGrade == InitGrade /\ [][NextGrade]_vars

SpecAutoGrade == InitAutoGrade /\ [][NextAutoGrade]_vars

\* ------------------------------------------------ authoring (SpecAuthor)

MaxQuestions == 1
MaxChoiceRows == 2

\* The largest member of a set of naturals, 0 for the empty set
MaxOf(S) == IF S = {} THEN 0 ELSE CHOOSE x \in S : \A y \in S : y <= x

\* The primary key the database gives the next row of a table with keys D
NextId(D) == MaxOf(D) + 1

\* The operation that acted last: a step of request p
Step(op, p) == [op |-> op, by |-> p, arg |-> ""]

\* if not self.order: last = ....order_by('order').last();
\* self.order = (last.order + 1) if last else 1
AssignOrder(row, siblingOrders) ==
    IF row.order = 0 THEN [row EXCEPT !.order = MaxOf(siblingOrders) + 1] ELSE row

\* Question.clean: TRUE when no ValidationError is raised
QuestionCleanAnyStatus == TRUE
QuestionClean == quiz.status = DRAFT

\* Question.save up to the end of full_clean. pk = None: a new question of
\* type t with order o (0: not given); pk = Some(q): question q, loaded and
\* its question_type set to t.
QuestionSaveClean(p, pk, t, o) ==
    /\ proc[p].pc = "idle"
    /\ pk # None => (Val(pk) \in QIds /\ o = questions[Val(pk)].order)
    /\ LET loaded == IF pk = None
                     THEN [question_type |-> t, marks |-> 1, order |-> o]
                     ELSE [questions[Val(pk)] EXCEPT !.question_type = t]
           row == AssignOrder(loaded, {questions[q].order : q \in QIds})
       IN  IF QuestionClean
           THEN proc' = [proc EXCEPT ![p] =
                              [pc |-> "question.write",
                               inst |-> [pk |-> pk, row |-> row], result |-> NoResult]]
           ELSE proc' = [proc EXCEPT ![p] = Returned("ValidationError")]
    /\ last' = Step("question.clean", p)
    /\ UNCHANGED <<now, quiz, attempts, nextPk>>
    /\ UNCHANGED gradeVars
    /\ UNCHANGED schoolVars

\* Question.save, super().save(): the INSERT or the UPDATE of all columns
QuestionSaveWrite(p) ==
    /\ proc[p].pc = "question.write"
    /\ LET id == IF proc[p].inst.pk = None THEN NextId(QIds) ELSE Val(proc[p].inst.pk) IN
       questions' = [q \in QIds \cup {id} |->
                        IF q = id THEN proc[p].inst.row ELSE questions[q]]
    /\ proc' = [proc EXCEPT ![p] = Returned("saved")]
    /\ last' = Step("question.write", p)
    /\ UNCHANGED <<now, quiz, attempts, nextPk>>
    /\ UNCHANGED <<choices, answer_keys, answers, scanOrder, grader, runs>>
    /\ UNCHANGED schoolVars

\* The labels a teacher types for a choice
LabelSamples == {TrueLabel, <<"b">>}

\* Choice.clean on the instance row with primary key pk (None: not saved
\* yet): TRUE when no ValidationError is raised
ChoiceClean(pk, row) ==
    LET t == questions[row.question].question_type
        others == {c \in ChoicesOf(row.question) : Some(c) # pk}
    IN  /\ quiz.status = DRAFT
        /\ t # SHORT_ANSWER
        /\ ~(t = MCQ_SINGLE /\ row.is_correct /\ \E c \in others : choices[c].is_correct)
        /\ t = TRUE_FALSE =>
              /\ Normalize(row.answer) \in {<<"t", "r", "u", "e">>, <<"f", "a", "l", "s", "e">>}
              /\ ~(Cardinality(others) >= 2)

\* Choice.save up to the end of full_clean. pk = None: a new choice of
\* question q with the given label and flag; pk = Some(c): choice c, loaded
\* and its is_correct set to flag.
ChoiceSaveClean(p, pk, q, label, flag) ==
    /\ proc[p].pc = "idle"
    /\ q \in QIds
    /\ pk # None => /\ Val(pk) \in CIds
                    /\ q = choices[Val(pk)].question
                    /\ label = choices[Val(pk)].answer
    /\ LET loaded == IF pk = None
                     THEN [question |-> q, is_correct |-> flag, answer |-> label,
                           order |-> 0]
                     ELSE [choices[Val(pk)] EXCEPT !.is_correct = flag]
           row == AssignOrder(loaded, {choices[c].order : c \in ChoicesOf(q)})
       IN  IF ChoiceClean(pk, row)
           THEN proc' = [proc EXCEPT ![p] =
                              [pc |-> "choice.write",
                               inst |-> [pk |-> pk, row |-> row], result |-> NoResult]]
           ELSE proc' = [proc EXCEPT ![p] = Returned("ValidationError")]
    /\ last' = Step("choice.clean", p)
    /\ UNCHANGED <<now, quiz, attempts, nextPk>>
    /\ UNCHANGED gradeVars
    /\ UNCHANGED schoolVars

\* Choice.save, super().save(): the INSERT or the UPDATE of all columns
ChoiceSaveWrite(p) ==
    /\ proc[p].pc = "choice.write"
    /\ LET id == IF proc[p].inst.pk = None THEN NextId(CIds) ELSE Val(proc[p].inst.pk) IN
       choices' = [c \in CIds \cup {id} |->
                      IF c = id THEN proc[p].inst.row ELSE choices[c]]
    /\ proc' = [proc EXCEPT ![p] = Returned("saved")]
    /\ last' = Step("choice.write", p)
    /\ UNCHANGED <<now, quiz, attempts, nextPk>>
    /\ UNCHANGED <<questions, answer_keys, answers, scanOrder, grader, runs>>
    /\ UNCHANGED schoolVars

\* The texts a teacher types for an answer key
KeyInputs == {<<"a">>, <<" ", "A">>, <<" ">>}

\* ShortAnswerKey.Meta.unique_together = ['question', 'text'], as
\* full_clean's validate_unique query and as the database constraint:
\* another row with the same question and text
KeyTakenNever(pk, row) == FALSE
KeyTaken(pk, row) ==
    \E k \in answer_keys :
        Some(k.pk) # pk /\ k.question = row.question /\ k.text = row.text

\* ShortAnswerKey.clean and the field validation of full_clean (text is
\* not blank) on the instance row: TRUE when no ValidationError is raised
ShortAnswerKeyClean(row) ==
    /\ row.text # <<>>
    /\ questions[row.question].question_type = SHORT_ANSWER
    /\ quiz.status = DRAFT

\* ShortAnswerKey.save up to the end of full_clean: the text is
\* normalized, then validated. pk = None: a new key of question q;
\* pk = Some(k): key k, loaded and its text set.
KeySaveClean(p, pk, q, text) ==
    /\ proc[p].pc = "idle"
    /\ q \in QIds
    /\ pk # None => \E k \in answer_keys : k.pk = Val(pk) /\ k.question = q
    /\ LET row == [question |-> q, text |-> Normalize(text)] IN
       IF ShortAnswerKeyClean(row) /\ ~KeyTaken(pk, row)
       THEN proc' = [proc EXCEPT ![p] =
                          [pc |-> "key.write",
                           inst |-> [pk |-> pk, row |-> row], result |-> NoResult]]
       ELSE proc' = [proc EXCEPT ![p] = Returned("ValidationError")]
    /\ last' = Step("key.clean", p)
    /\ UNCHANGED <<now, quiz, attempts, nextPk>>
    /\ UNCHANGED gradeVars
    /\ UNCHANGED schoolVars

\* ShortAnswerKey.save, super().save(): the INSERT or UPDATE, refused by
\* the unique constraint
KeySaveWrite(p) ==
    /\ proc[p].pc = "key.write"
    /\ LET pk == proc[p].inst.pk
           row == proc[p].inst.row
           id == IF pk = None THEN NextId({k.pk : k \in answer_keys}) ELSE Val(pk)
       IN  IF KeyTaken(pk, row)
           THEN /\ UNCHANGED answer_keys
                /\ proc' = [proc EXCEPT ![p] = Returned("IntegrityError")]
           ELSE /\ answer_keys' = {k \in answer_keys : k.pk # id}
                                    \cup {[pk |-> id] @@ row}
                /\ proc' = [proc EXCEPT ![p] = Returned("saved")]
    /\ last' = Step("key.write", p)
    /\ UNCHANGED <<now, quiz, attempts, nextPk>>
    /\ UNCHANGED <<questions, choices, answers, scanOrder, grader, runs>>
    /\ UNCHANGED schoolVars

\* A new quiz in Draft status, without questions
InitAuthor ==
    /\ NoSchoolRows
    /\ now = 0
    /\ quiz = [status |-> DRAFT, start_time |-> None, end_time |-> None,
               max_attempts |-> 1]
    /\ attempts = {}
    /\ nextPk = 1
    /\ proc = [p \in Procs |-> IdleProc]
    /\ questions = <<>>
    /\ choices = <<>>
    /\ answer_keys = {}
    /\ answers = <<>>
    /\ scanOrder = <<>>
    /\ grader = IdleGrader
    /\ runs = <<>>
    /\ last = [op |-> "init", by |-> 0, arg |-> ""]

\* The teacher's requests are served one at a time, by the first worker
AuthorProc == 1

NextAuthor ==
    \/ \E t \in QuestionTypes :
          /\ Cardinality(QIds) < MaxQuestions
          /\ QuestionSaveClean(AuthorProc, None, t, 0)
    \/ \E q \in QIds, t \in QuestionTypes :
          QuestionSaveClean(AuthorProc, Some(q), t, questions[q].order)
    \/ QuestionSaveWrite(AuthorProc)
    \/ \E q \in QIds, label \in LabelSamples, flag \in BOOLEAN :
          /\ Cardinality(CIds) < MaxChoiceRows
          /\ ChoiceSaveClean(AuthorProc, None, q, label, flag)
    \/ \E c \in CIds, flag \in BOOLEAN :
          ChoiceSaveClean(AuthorProc, Some(c), choices[c].question, choices[c].answer, flag)
    \/ ChoiceSaveWrite(AuthorProc)
    \/ \E q \in QIds, text \in KeyInputs :
          KeySaveClean(AuthorProc, None, q, text)
    \/ \E k \in answer_keys, text \in KeyInputs :
          KeySaveClean(AuthorProc, Some(k.pk), k.question, text)
    \/ KeySaveWrite(AuthorProc)
    \/ \E st \in QuizStatuses : SetQuizStatus(st)

SpecAuthor == InitAuthor /\ [][NextAuthor]_vars

\* -------------------------------------- concurrent authoring (SpecRace)

\* A Draft quiz with a true/false question that has its first choice and a
\* short-answer question that has a key
InitRace ==
    /\ NoSchoolRows
    /\ now = 0
    /\ quiz = [status |-> DRAFT, start_time |-> None, end_time |-> None,
               max_attempts |-> 1]
    /\ attempts = {}
    /\ nextPk = 1
    /\ proc = [p \in Procs |-> IdleProc]
    /\ questions = <<[question_type |-> TRUE_FALSE, marks |-> 1, order |-> 1],
                     [question_type |-> SHORT_ANSWER, marks |-> 1, order |-> 2]>>
    /\ choices = <<ChoiceRow(1, TRUE, 1)>>
    /\ answer_keys = {[pk |-> 1, question |-> 2, text |-> <<"b">>]}
    /\ answers = <<>>
    /\ scanOrder = <<>>
    /\ grader = IdleGrader
    /\ runs = <<>>
    /\ last = [op |-> "init", by |-> 0, arg |-> ""]

\* A worker that has not served a request yet
Fresh(p) == proc[p].pc = "idle" /\ proc[p].result = NoResult

\* Every worker serves one request: the creation of a question without an
\* explicit order, of a choice, or the save of a new or existing key. The
\* steps of the requests interleave.
NextRace ==
    \/ \E p \in Procs, t \in QuestionTypes :
          Fresh(p) /\ QuestionSaveClean(p, None, t, 0)
    \/ \E p \in Procs : QuestionSaveWrite(p)
    \/ \E p \in Procs, q \in QIds, label \in LabelSamples, flag \in BOOLEAN :
          Fresh(p) /\ ChoiceSaveClean(p, None, q, label, flag)
    \/ \E p \in Procs : ChoiceSaveWrite(p)
    \/ \E p \in Procs, q \in QIds, text \in KeyInputs :
          Fresh(p) /\ KeySaveClean(p, None, q, text)
    \/ \E p \in Procs, k \in answer_keys, text \in KeyInputs :
          Fresh(p) /\ KeySaveClean(p, Some(k.pk), k.question, text)
    \/ \E p \in Procs : KeySaveWrite(p)

SpecRace == InitRace /\ [][NextRace]_vars

\* ------------------------------------------ recording answers (SpecAnswer)

\* Choice.delete(): the row goes; StudentAnswer.selected_choice is
\* on_delete=SET_NULL and the rows of the selected_choices relation cascade
DeleteChoice(c) ==
    /\ grader.pc = "idle"
    /\ c \in CIds
    /\ choices' = [x \in CIds \ {c} |-> choices[x]]
    /\ answers' = [q \in DOMAIN answers |->
                      [answers[q] EXCEPT
                          !.selected_choice = IF @ = Some(c) THEN None ELSE @,
                          !.selected_choices = @ \ {c}]]
    /\ runs' = <<>>
    /\ last' = [op |-> "delete_choice", by |-> 0, arg |-> ""]
    /\ UNCHANGED <<questions, answer_keys, scanOrder, grader, attempts>>
    /\ UNCHANGED startVars
    /\ UNCHANGED schoolVars

\* An attempt in progress on a quiz of two questions: the first of any
\* type, with two choices unless it is a short-answer one, the second a
\* multiple-choice question with one choice; no answer recorded yet
InitAnswer ==
    /\ InitAttempt
    /\ \E t \in QuestionTypes :
          /\ questions = <<[question_type |-> t, marks |-> 1, order |-> 1],
                           [question_type |-> MCQ_MULTIPLE, marks |-> 1, order |-> 2]>>
          /\ choices = [c \in (IF t = SHORT_ANSWER THEN {3} ELSE 1..3) |->
                           ChoiceRow(IF c = 3 THEN 2 ELSE 1, c # 2, c)]
          /\ answer_keys = IF t = SHORT_ANSWER
                           THEN {[pk |-> 1, question |-> 1, text |-> <<"a">>]}
                           ELSE {}
    /\ answers = <<>>
    /\ scanOrder = <<1, 2>>

NextAnswer ==
    \/ \E q \in QIds : \E r \in Responses(q) : RecordAnswer(q, r)
    \/ \E c \in CIds : DeleteChoice(c)

SpecAnswer == InitAnswer /\ [][NextAnswer]_vars

\* ------------------------------- grading after edits (SpecRegrade, SpecOverwrite)

\* SpecRegrade: answers are recorded, choices deleted and the attempt
\* graded again and again, one request at a time
NextRegrade ==
    \/ \E q \in QIds : \E r \in Responses(q) : grader.pc = "idle" /\ RecordAnswer(q, r)
    \/ \E c \in CIds : DeleteChoice(c)
    \/ GradeAllBegin
    \/ \E q \in QIds : GradeAnswer(q)
    \/ GradeCalculate

SpecRegrade == InitAnswer /\ [][NextRegrade]_vars

\* An attempt in progress on a quiz of one single-choice question with a
\* correct and a wrong choice; no answer recorded yet
InitOverwrite ==
    /\ InitAttempt
    /\ questions = <<[question_type |-> MCQ_SINGLE, marks |-> 1, order |-> 1]>>
    /\ choices = <<ChoiceRow(1, TRUE, 1), ChoiceRow(1, FALSE, 2)>>
    /\ answer_keys = {}
    /\ answers = <<>>
    /\ scanOrder = <<1>>

\* SpecOverwrite: answers are recorded while auto_grade_all runs; every
\* query of the run is a step
NextOverwrite ==
    \/ \E q \in QIds : \E r \in Responses(q) : RecordAnswer(q, r)
    \/ GradeAllBegin
    \/ \E q \in QIds : GradeAnswer(q)
    \/ GradeCalculate

SpecOverwrite == InitOverwrite /\ [][NextOverwrite]_vars

\* --------------------------------- concurrent auto_grade_all (SpecGradeRace)

\* auto_grade_all run by request p, the query of the loop header: the
\* attempt instance and its answers are loaded
GradeAllLoad(p) ==
    /\ proc[p].pc = "idle"
    /\ proc' = [proc EXCEPT ![p] =
                   [pc |-> "grading",
                    inst |-> [pending |-> DOMAIN answers, snap |-> answers,
                              att |-> TheAttempt],
                    result |-> NoResult]]
    /\ last' = Step("auto_grade_all", p)
    /\ UNCHANGED <<now, quiz, attempts, nextPk>>
    /\ UNCHANGED gradeVars
    /\ UNCHANGED schoolVars

\* auto_grade_all run by request p, one iteration of the loop:
\* answer.auto_grade() on the next loaded answer; an exception ends the run
GradeAllAnswer(p) ==
    /\ proc[p].pc = "grading"
    /\ proc[p].inst.pending # {}
    /\ LET q == NextInScan(proc[p].inst.pending)
           S == answers[q].selected_choices
           res == auto_grade(proc[p].inst.snap[q], S)
       IN  /\ answers' = IF res.outcome = "saved"
                         THEN WriteAnswer([res.row EXCEPT !.selected_choices = S])
                         ELSE answers
           /\ IF res.outcome \in {"saved", "skipped"}
              THEN proc' = [proc EXCEPT
                               ![p].inst.pending = @ \ {q},
                               ![p].inst.snap =
                                   [x \in proc[p].inst.pending \ {q} |-> @[x]]]
              ELSE proc' = [proc EXCEPT ![p] = Returned(res.outcome)]
    /\ last' = Step("auto_grade", p)
    /\ UNCHANGED <<now, quiz, attempts, nextPk>>
    /\ UNCHANGED <<questions, choices, answer_keys, scanOrder, grader, runs>>
    /\ UNCHANGED schoolVars

\* auto_grade_all run by request p, after the loop: self.calculate_marks()
\* on the attempt instance loaded at the beginning
GradeAllCalculate(p) ==
    /\ proc[p].pc = "grading"
    /\ proc[p].inst.pending = {}
    /\ LET res == calculate_marks(proc[p].inst.att, answers, now) IN
       /\ attempts' = IF res.outcome = "saved" THEN WriteAttempt(res.row) ELSE attempts
       /\ proc' = [proc EXCEPT ![p] = Returned(res.outcome)]
    /\ last' = Step("auto_grade_all.calculate_marks", p)
    /\ UNCHANGED <<now, quiz, nextPk>>
    /\ UNCHANGED gradeVars
    /\ UNCHANGED schoolVars

\* The grades an answer can carry from an earlier run: none, or the full
\* mark, given under a ground truth that may have been edited since
EarlierGrades(q) ==
    {[is_correct |-> None, marks_awarded |-> None],
     [is_correct |-> Some(TRUE), marks_awarded |-> Some(Hundredths(questions[q].marks))]}

\* SpecGradeRace: the quiz of InitAnswer; the attempt, in progress or
\* submitted, has a stored answer to each question
InitGradeRace ==
    /\ NoSchoolRows
    /\ now = MaxTime - 1
    /\ quiz = [status |-> PUBLISHED, start_time |-> Some(1), end_time |-> Some(MaxTime),
               max_attempts |-> 1]
    /\ \E st \in {IN_PROGRESS, SUBMITTED} :
          attempts = {[[pk |-> 1] @@ NewAttempt("s1") EXCEPT
                          !.status = st,
                          !.submitted_at = IF st = SUBMITTED THEN Some(1) ELSE None]}
    /\ nextPk = 2
    /\ proc = [p \in Procs |-> IdleProc]
    /\ grader = IdleGrader
    /\ runs = <<>>
    /\ last = [op |-> "init", by |-> 0, arg |-> ""]
    /\ \E t \in QuestionTypes :
          /\ questions = <<[question_type |-> t, marks |-> 1, order |-> 1],
                           [question_type |-> MCQ_MULTIPLE, marks |-> 2, order |-> 2]>>
          /\ choices = [c \in (IF t = SHORT_ANSWER THEN {3} ELSE 1..3) |->
                           ChoiceRow(IF c = 3 THEN 2 ELSE 1, c # 2, c)]
          /\ answer_keys = IF t = SHORT_ANSWER
                           THEN {[pk |-> 1, question |-> 1, text |-> <<"a">>]}
                           ELSE {}
    /\ \E a1 \in StoredAnswers(1), a2 \in StoredAnswers(2) :
       \E g1 \in EarlierGrades(1), g2 \in EarlierGrades(2) :
          answers = <<[a1 EXCEPT !.is_correct = g1.is_correct,
                                 !.marks_awarded = g1.marks_awarded],
                      [a2 EXCEPT !.is_correct = g2.is_correct,
                                 !.marks_awarded = g2.marks_awarded]>>
    /\ scanOrder \in {<<1, 2>>, <<2, 1>>}

\* Every worker serves one auto_grade_all on the attempt; the queries of
\* the runs interleave.
NextGradeRace ==
    \/ \E p \in Procs : Fresh(p) /\ GradeAllLoad(p)
    \/ \E p \in Procs : GradeAllAnswer(p)
    \/ \E p \in Procs : GradeAllCalculate(p)

SpecGradeRace == InitGradeRace /\ [][NextGradeRace]_vars

\* ------------------------------------ marks edited after grading (SpecRemark)

RECURSIVE SumQuestionMarks(_)
SumQuestionMarks(Q) ==
    IF Q = {} THEN 0
    ELSE LET q == CHOOSE x \in Q : TRUE IN questions[q].marks + SumQuestionMarks(Q \ {q})

\* Quiz.total_marks: self.questions.aggregate(total=Sum('marks'))['total'] or 0
total_marks == SumQuestionMarks(QIds)

\* Question.save up to the end of full_clean, of question q, loaded and
\* its marks set to m
QuestionMarksClean(p, q, m) ==
    /\ proc[p].pc = "idle"
    /\ q \in QIds
    /\ IF QuestionClean
       THEN proc' = [proc EXCEPT ![p] =
                        [pc |-> "question.write",
                         inst |-> [pk |-> Some(q),
                                   row |-> [questions[q] EXCEPT !.marks = m]],
                         result |-> NoResult]]
       ELSE proc' = [proc EXCEPT ![p] = Returned("ValidationError")]
    /\ last' = Step("question.clean", p)
    /\ UNCHANGED <<now, quiz, attempts, nextPk>>
    /\ UNCHANGED gradeVars
    /\ UNCHANGED schoolVars

\* An attempt in progress on a published quiz of one single-choice
\* question worth 2 marks, with a correct and a wrong choice
InitRemark ==
    /\ InitAttempt
    /\ questions = <<[question_type |-> MCQ_SINGLE, marks |-> 2, order |-> 1]>>
    /\ choices = <<ChoiceRow(1, TRUE, 1), ChoiceRow(1, FALSE, 2)>>
    /\ answer_keys = {}
    /\ answers = <<>>
    /\ scanOrder = <<1>>

\* SpecRemark: the student answers and submits, the attempt is graded and
\* recomputed, and the teacher edits the quiz's status and, while it is a
\* draft, the question's marks; one request at a time
NextRemark ==
    \/ \E q \in QIds : \E r \in Responses(q) :
          grader.pc = "idle" /\ proc[AuthorProc].pc = "idle" /\ RecordAnswer(q, r)
    \/ proc[AuthorProc].pc = "idle" /\ Submit
    \/ proc[AuthorProc].pc = "idle" /\ Recompute
    \/ proc[AuthorProc].pc = "idle" /\ GradeAllBegin
    \/ \E q \in QIds : GradeAnswer(q)
    \/ GradeCalculate
    \/ \E st \in QuizStatuses :
          grader.pc = "idle" /\ proc[AuthorProc].pc = "idle" /\ SetQuizStatus(st)
    \/ \E q \in QIds, m \in 1..3 :
          grader.pc = "idle" /\ QuestionMarksClean(AuthorProc, q, m)
    \/ QuestionSaveWrite(AuthorProc)

SpecRemark == InitRemark /\ [][NextRemark]_vars

\* --------------------------------------------------- quiz writes (SpecQuiz)

\* The values a caller gives start_time and end_time
TimeInputs == {None} \cup {Some(t) : t \in 0..MaxTime}

\* Quiz.clean on the instance q at time t: TRUE when no ValidationError is
\* raised
QuizClean(q, t) ==
    ~( /\ q.start_time # None /\ q.end_time # None
       /\ \/ Val(q.end_time) <= Val(q.start_time)
          \/ Val(q.end_time) < t )

\* Quiz.save(): the class does not override Model.save, so the row is
\* written as given (clean() is not called)
QuizSave(st, en) ==
    /\ quiz' = [quiz EXCEPT !.start_time = st, !.end_time = en]
    /\ last' = [op |-> "quiz.save", by |-> 0, arg |-> "saved"]
    /\ UNCHANGED <<now, attempts, nextPk, proc>>
    /\ UNCHANGED gradeVars
    /\ UNCHANGED schoolVars

\* A save through the QuizAdmin form: the form calls full_clean, hence
\* Quiz.clean, and saves only a valid instance
QuizAdminSave(st, en) ==
    /\ LET inst == [quiz EXCEPT !.start_time = st, !.end_time = en] IN
       IF QuizClean(inst, now)
       THEN /\ quiz' = inst
            /\ last' = [op |-> "quiz.admin_save", by |-> 0, arg |-> "saved"]
       ELSE /\ quiz' = quiz
            /\ last' = [op |-> "quiz.admin_save", by |-> 0, arg |-> "ValidationError"]
    /\ UNCHANGED <<now, attempts, nextPk, proc>>
    /\ UNCHANGED gradeVars
    /\ UNCHANGED schoolVars

NextQuiz ==
    \/ \E st \in TimeInputs, en \in TimeInputs : QuizSave(st, en)
    \/ \E st \in TimeInputs, en \in TimeInputs : QuizAdminSave(st, en)
    \/ Tick

SpecQuiz == InitAuthor /\ [][NextQuiz]_vars

\* ------------------------------------- profiles and school ids (SpecProfile)

\* The variables of the quiz engine
quizVars == <<now, quiz, attempts, nextPk, questions, choices, answer_keys,
              answers, scanOrder, grader, runs>>

\* No quiz row is stored and every worker is idle
NoQuizRows ==
    /\ now = 0
    /\ quiz = [status |-> DRAFT, start_time |-> None, end_time |-> None,
               max_attempts |-> 1]
    /\ attempts = {}
    /\ nextPk = 1
    /\ proc = [p \in Procs |-> IdleProc]
    /\ questions = <<>>
    /\ choices = <<>>
    /\ answer_keys = {}
    /\ answers = <<>>
    /\ scanOrder = <<>>
    /\ grader = IdleGrader
    /\ runs = <<>>
    /\ last = [op |-> "init", by |-> 0, arg |-> ""]

\* Student, Teacher, Admin, Principal: one table each
Roles == {"Student", "Teacher", "Admin", "Principal"}

UIds == DOMAIN users

\* The prefix each post_save handler puts before the id
Prefix(role) ==
    IF role = "Student" THEN <<"S", "T", "D">>
    ELSE IF role = "Teacher" THEN <<"T", "C", "H">>
    ELSE IF role = "Admin" THEN <<"A", "D", "M">>
    ELSE <<"P", "R", "N">>

DigitChars == <<"0", "1", "2", "3", "4", "5", "6", "7", "8", "9">>

\* str(n) for a natural number n
RECURSIVE DecimalDigits(_)
DecimalDigits(n) ==
    IF n < 10 THEN <<DigitChars[n + 1]>>
    ELSE DecimalDigits(n \div 10) \o <<DigitChars[(n % 10) + 1]>>

\* The format specification 03d: zero-padded on the left to 3 characters
RECURSIVE ZeroPad3(_)
ZeroPad3(s) == IF Len(s) >= 3 THEN s ELSE ZeroPad3(<<"0">> \o s)

\* f"STD{instance.id:03d}" and its likes
GenerateNumber(role, id) == Prefix(role) \o ZeroPad3(DecimalDigits(id))

\* The rows of the table of a role
ProfilesOf(role) == {r \in profiles : r.role = role}

\* unique=True on student_number / employee_number: another row of the
\* table holds the number
NumberTaken(role, id, number) ==
    \E r \in ProfilesOf(role) : r.id # id /\ r.number = number

\* unique=True on User.school_id (NULLs do not clash): another user holds it
SchoolIdTaken(u, sid) ==
    \E v \in UIds : v # u /\ users[v].school_id = Some(sid)

\* Model.objects.create(user=u, ...) with the given number (empty when
\* left out): the INSERT, refused when the user already has a profile of
\* the role (OneToOneField) or the number is taken. The instance keeps
\* the user object as it was loaded.
ProfileCreate(p, role, u, number) ==
    /\ proc[p].pc = "idle"
    /\ u \in UIds
    /\ LET id == NextId({r.id : r \in ProfilesOf(role)}) IN
       IF \/ \E r \in ProfilesOf(role) : r.user = u
          \/ NumberTaken(role, id, number)
       THEN /\ UNCHANGED profiles
            /\ proc' = [proc EXCEPT ![p] = Returned("IntegrityError")]
       ELSE /\ profiles' = profiles \cup
                              {[role |-> role, id |-> id, user |-> u, number |-> number]}
            /\ proc' = [proc EXCEPT ![p] =
                           [pc |-> "post_save.number",
                            inst |-> [role |-> role, id |-> id, user |-> u,
                                      number |-> number,
                                      school_id |-> users[u].school_id,
                                      generated |-> FALSE],
                            result |-> NoResult]]
    /\ last' = Step("profile.create", p)
    /\ UNCHANGED <<users, terms, assignment, submissions>>
    /\ UNCHANGED quizVars

\* The post_save handler, first block (created is true): an empty number
\* is generated and written with save(update_fields=[the number])
ProfileNumber(p) ==
    /\ proc[p].pc = "post_save.number"
    /\ LET inst == proc[p].inst
           number == GenerateNumber(inst.role, inst.id)
       IN  IF inst.number # <<>>
           THEN /\ UNCHANGED profiles
                /\ proc' = [proc EXCEPT ![p].pc = "post_save.school_id"]
           ELSE IF NumberTaken(inst.role, inst.id, number)
           THEN /\ UNCHANGED profiles
                /\ proc' = [proc EXCEPT ![p] = Returned("IntegrityError")]
           ELSE /\ profiles' = {IF r.role = inst.role /\ r.id = inst.id
                                THEN [r EXCEPT !.number = number] ELSE r : r \in profiles}
                /\ proc' = [proc EXCEPT ![p].pc = "post_save.school_id",
                                        ![p].inst.number = number,
                                        ![p].inst.generated = TRUE]
    /\ last' = Step("profile.number", p)
    /\ UNCHANGED <<users, terms, assignment, submissions>>
    /\ UNCHANGED quizVars

\* instance.user.school_id, read as a condition, on the value sid the user
\* object holds: neither None nor empty
HasSchoolIdNever(sid) == FALSE
HasSchoolId(sid) == sid \notin {None, Some(<<>>)}

\* The post_save handler, second block (it runs first in the handler call
\* that save(update_fields=...) of the first block sets off): a user
\* object without school_id gets the number, written with
\* save(update_fields=['school_id'])
ProfileSchoolId(p) ==
    /\ proc[p].pc = "post_save.school_id"
    /\ LET inst == proc[p].inst IN
       IF HasSchoolId(inst.school_id)
       THEN /\ UNCHANGED users
            /\ proc' = [proc EXCEPT ![p] = Returned("saved")]
       ELSE IF SchoolIdTaken(inst.user, inst.number)
       THEN /\ UNCHANGED users
            /\ proc' = [proc EXCEPT ![p] = Returned("IntegrityError")]
       ELSE /\ users' = [users EXCEPT ![inst.user].school_id = Some(inst.number)]
            /\ proc' = [proc EXCEPT ![p] = Returned("saved")]
    /\ last' = Step("profile.school_id", p)
    /\ UNCHANGED <<profiles, terms, assignment, submissions>>
    /\ UNCHANGED quizVars

\* The numbers a clerk gives at creation: none, or one of the usual form
NumberInputs(role) == {<<>>, GenerateNumber(role, 2)}

\* SpecProfile: two users without profile; the second may have been given
\* a school_id when the account was made
InitProfile ==
    /\ NoQuizRows
    /\ profiles = {}
    /\ terms = <<>>
    /\ assignment = [due_date |-> None, max_attempts |-> 1, total_marks |-> 1]
    /\ submissions = <<>>
    /\ \E sid \in {None, Some(<<"X">>)} :
          users = <<[school_id |-> None], [school_id |-> sid]>>

\* Every worker serves one creation of a profile; the steps of the
\* creations interleave.
NextProfile ==
    \/ \E p \in Procs, role \in Roles, u \in UIds :
          \E number \in NumberInputs(role) : Fresh(p) /\ ProfileCreate(p, role, u, number)
    \/ \E p \in Procs : ProfileNumber(p)
    \/ \E p \in Procs : ProfileSchoolId(p)

SpecProfile == InitProfile /\ [][NextProfile]_vars

\* ------------------------------------------------ academic terms (SpecTerm)

TIds == DOMAIN terms

\* AcademicTerm.objects.filter(is_current=True)
CurrentTerms == {t \in TIds : terms[t].is_current}

\* AcademicTerm.objects.filter(is_current=True).update(is_current=False)
ClearCurrent == [t \in TIds |-> [terms[t] EXCEPT !.is_current = FALSE]]

\* AcademicTerm.save up to super().save(): when the instance is current,
\* the UPDATE that clears the flag of the stored current terms.
\* pk = None: a new term with is_current = cur; pk = Some(t): term t,
\* loaded and its is_current set to cur.
TermSaveClear(p, pk, cur) ==
    /\ proc[p].pc = "idle"
    /\ pk # None => Val(pk) \in TIds
    /\ terms' = IF cur THEN ClearCurrent ELSE terms
    /\ proc' = [proc EXCEPT ![p] =
                   [pc |-> "term.write",
                    inst |-> [pk |-> pk, row |-> [is_current |-> cur]],
                    result |-> NoResult]]
    /\ last' = Step("term.clear", p)
    /\ UNCHANGED <<users, profiles, assignment, submissions>>
    /\ UNCHANGED quizVars

\* AcademicTerm.save, super().save(): the INSERT or the UPDATE of all columns
TermSaveWrite(p) ==
    /\ proc[p].pc = "term.write"
    /\ LET id == IF proc[p].inst.pk = None THEN NextId(TIds) ELSE Val(proc[p].inst.pk) IN
       terms' = [t \in TIds \cup {id} |->
                    IF t = id THEN proc[p].inst.row ELSE terms[t]]
    /\ proc' = [proc EXCEPT ![p] = Returned("saved")]
    /\ last' = Step("term.write", p)
    /\ UNCHANGED <<users, profiles, assignment, submissions>>
    /\ UNCHANGED quizVars

\* SpecTerm: two stored terms, at most one of them current
InitTerm ==
    /\ NoQuizRows
    /\ users = <<>>
    /\ profiles = {}
    /\ assignment = [due_date |-> None, max_attempts |-> 1, total_marks |-> 1]
    /\ submissions = <<>>
    /\ terms \in [1..2 -> [is_current : BOOLEAN]]
    /\ Cardinality(CurrentTerms) <= 1

\* Every worker serves one save of a new or a stored term; the steps of
\* the saves interleave.
NextTerm ==
    \/ \E p \in Procs, cur \in BOOLEAN : Fresh(p) /\ TermSaveClear(p, None, cur)
    \/ \E p \in Procs, t \in TIds, cur \in BOOLEAN :
          Fresh(p) /\ TermSaveClear(p, Some(t), cur)
    \/ \E p \in Procs : TermSaveWrite(p)

SpecTerm == InitTerm /\ [][NextTerm]_vars

\* ------------------------------------- assignment submissions (SpecSubmission)

SIds == DOMAIN submissions

\* Submission.StatusChoices.RETURNED (SUBMITTED and GRADED are spelled as
\* in QuizAttempt.StatusChoices)
RETURNED == "returned"

\* Assignment.is_past_due
is_past_due(a, t) == IF a.due_date # None THEN t > Val(a.due_date) ELSE FALSE

\* Submission(assignment=..., student=s, text_answer=text) before it is saved
NewSubmission(s, text) ==
    [student |-> s, text_answer |-> text, status |-> SUBMITTED,
     marks_obtained |-> None, is_graded |-> FALSE, attempt_number |-> 1,
     graded_at |-> None]

\* Submission.objects.filter(assignment=..., student=...), without the
\* instance's own row when it has a primary key
existing_attempts(pk, s) ==
    {i \in SIds : submissions[i].student = s /\ Some(i) # pk}

\* Submission.clean on the instance row with primary key pk (None: not
\* saved yet) at time t: the outcome and the instance, its attempt_number
\* set to the number of the student's other submissions plus one. No file
\* is ever attached.
SubmissionClean(pk, row, t) ==
    LET others == Cardinality(existing_attempts(pk, row.student)) IN
    IF ~Truthy(row.text_answer)
    THEN [outcome |-> "ValidationError", row |-> row]
    ELSE IF /\ row.marks_obtained \notin {None, Some(0)}
            /\ Val(row.marks_obtained) > Hundredths(assignment.total_marks)
    THEN [outcome |-> "ValidationError", row |-> row]
    ELSE IF is_past_due(assignment, t)
    THEN [outcome |-> "ValidationError", row |-> row]
    ELSE IF others >= assignment.max_attempts
    THEN [outcome |-> "ValidationError", row |-> row]
    ELSE [outcome |-> "clean", row |-> [row EXCEPT !.attempt_number = others + 1]]

\* Submission.save after self.clean(): a graded submission gets graded_at
\* and, unless it was returned, the status Graded
StampGraded(row, t) ==
    IF row.is_graded
    THEN [row EXCEPT !.graded_at = IF @ = None THEN Some(t) ELSE @,
                     !.status = IF @ # RETURNED THEN GRADED ELSE @]
    ELSE row

\* Meta.unique_together = ['assignment', 'student', 'attempt_number'], the
\* database constraint: another row of the student with the same number
SubmissionTaken(pk, row) ==
    \E i \in SIds : /\ Some(i) # pk
                    /\ submissions[i].student = row.student
                    /\ submissions[i].attempt_number = row.attempt_number

\* Submission.save up to super().save(). pk = None: a new submission of
\* student s with the given text; pk = Some(i): submission i, loaded, its
\* is_graded and marks_obtained set (the teacher records the grade).
SubmissionSaveClean(p, pk, s, text, graded, marks) ==
    /\ proc[p].pc = "idle"
    /\ pk # None => /\ Val(pk) \in SIds
                    /\ s = submissions[Val(pk)].student
                    /\ text = submissions[Val(pk)].text_answer
    /\ pk = None => (~graded /\ marks = None)
    /\ LET loaded == IF pk = None THEN NewSubmission(s, text)
                     ELSE [submissions[Val(pk)] EXCEPT !.is_graded = graded,
                                                       !.marks_obtained = marks]
           res == SubmissionClean(pk, loaded, now)
       IN  IF res.outcome = "clean"
           THEN proc' = [proc EXCEPT ![p] =
                            [pc |-> "submission.write",
                             inst |-> [pk |-> pk, row |-> StampGraded(res.row, now)],
                             result |-> NoResult]]
           ELSE proc' = [proc EXCEPT ![p] = Returned(res.outcome)]
    /\ last' = Step("submission.clean", p)
    /\ UNCHANGED <<users, profiles, terms, assignment, submissions>>
    /\ UNCHANGED quizVars

\* Submission.save, super().save(): the INSERT or the UPDATE of all
\* columns, refused by the database when the unique constraint is violated
SubmissionSaveWrite(p) ==
    /\ proc[p].pc = "submission.write"
    /\ LET pk == proc[p].inst.pk
           row == proc[p].inst.row
           id == IF pk = None THEN NextId(SIds) ELSE Val(pk)
       IN  IF SubmissionTaken(pk, row)
           THEN /\ UNCHANGED submissions
                /\ proc' = [proc EXCEPT ![p] = Returned("IntegrityError")]
           ELSE /\ submissions' = [i \in SIds \cup {id} |->
                                      IF i = id THEN row ELSE submissions[i]]
                /\ proc' = [proc EXCEPT ![p] = Returned("saved")]
    /\ last' = Step("submission.write", p)
    /\ UNCHANGED <<users, profiles, terms, assignment>>
    /\ UNCHANGED quizVars

\* SpecSubmission: an assignment of 1 mark that allows MaxAttempts attempts
\* and is due at MaxTime - 1; student s1 has submitted some attempts, none
\* graded yet
InitSubmission ==
    /\ NoQuizRows
    /\ users = <<>>
    /\ profiles = {}
    /\ terms = <<>>
    /\ assignment = [due_date |-> Some(MaxTime - 1), max_attempts |-> MaxAttempts,
                     total_marks |-> 1]
    /\ \E k \in 0..MaxAttempts :
          submissions = [i \in 1..k |->
                            [NewSubmission("s1", Some(<<"a">>)) EXCEPT !.attempt_number = i]]

\* Every worker serves one request: a student's new submission or a
\* teacher's grading of a stored one. The steps of the requests interleave.
NextSubmission ==
    \/ \E p \in Procs, s \in Students, text \in {None, Some(<<"a">>)} :
          Fresh(p) /\ SubmissionSaveClean(p, None, s, text, FALSE, None)
    \/ \E p \in Procs, i \in SIds, graded \in BOOLEAN,
          marks \in {None, Some(Hundredths(1)), Some(Hundredths(2))} :
          Fresh(p) /\ SubmissionSaveClean(p, Some(i), submissions[i].student,
                                          submissions[i].text_answer, graded, marks)
    \/ \E p \in Procs : SubmissionSaveWrite(p)
    \/ Tick

SpecSubmission == InitSubmission /\ [][NextSubmission]_vars

\* ------------------------------------------------------ claims, SpecStart

\* C1: for every (quiz, student) pair the number of stored attempts never
\* exceeds quiz.max_attempts, under any interleaving of start_attempt calls
\* (so once max_attempts calls have succeeded, no further call stores one).
C1_AttemptsBounded ==
    \A s \in Students : attempt_count(s) <= quiz.max_attempts

\* C1 witness: a student holds max_attempts (= MaxAttempts) attempts and a
\* concurrent start_attempt that had passed the limit test has just failed
\* at its INSERT.
C1_Witness ==
    /\ quiz.max_attempts = MaxAttempts
    /\ last.op = "start_attempt.insert"
    /\ proc[last.by].result = "IntegrityError"
    /\ attempt_count(last.arg) = quiz.max_attempts

\* C2: a start_attempt whose clean() runs while the quiz is not active, or
\* while the student's attempt count equals max_attempts, ends with a
\* validation error and stores no attempt.
C2_NotActiveNow ==
    \/ quiz.status # PUBLISHED
    \/ quiz.start_time = None
    \/ quiz.end_time = None
    \/ now < Val(quiz.start_time)
    \/ now > Val(quiz.end_time)

C2_RejectedWhenInactiveOrAtLimit ==
    [][ ( /\ last'.op = "start_attempt.clean"
          /\ \/ C2_NotActiveNow
             \/ attempt_count(last'.arg) = quiz.max_attempts )
        => /\ proc'[last'.by] = Returned("ValidationError")
           /\ attempts' = attempts ]_vars

\* C2 witness: a published quiz whose end_time is past has just rejected a
\* start_attempt of a student with attempts remaining.
C2_Witness ==
    /\ last.op = "start_attempt.clean"
    /\ proc[last.by].result = "ValidationError"
    /\ quiz.status = PUBLISHED
    /\ quiz.end_time # None /\ now > Val(quiz.end_time)
    /\ attempt_count(last.arg) < quiz.max_attempts

\* C3: every stored attempt is created with status in_progress and
\* attempt_number = (attempts stored for the pair) + 1, and the attempt
\* numbers of every pair are exactly 1..n without duplicate.
C3_NumbersSequential ==
    \A s \in Students :
        /\ {a.attempt_number : a \in AttemptsOf(s)} = 1..attempt_count(s)
        /\ \A a, b \in AttemptsOf(s) : a.attempt_number = b.attempt_number => a = b

C3_CreatedNumbered ==
    \A a \in attempts' \ attempts :
        /\ a.status = IN_PROGRESS
        /\ a.attempt_number = attempt_count(a.student) + 1

C3_AttemptNumbers == []C3_NumbersSequential /\ [][C3_CreatedNumbered]_vars

\* C3 witness: a pair holds attempts 1 and 2, the second one just created
\* after another request lost the race for a number.
C3_Witness ==
    /\ last.op = "start_attempt.insert"
    /\ proc[last.by].result = "created"
    /\ attempt_count(last.arg) = MaxAttempts
    /\ \E p \in Procs : proc[p].result = "IntegrityError"

\* ------------------------------------------------------ claims, SpecGrade

\* C4: submitting (saving the attempt with status Submitted) moves an
\* InProgress attempt to Submitted and stamps submitted_at only when it is
\* unset; on an attempt that is already Submitted or Graded it leaves the
\* status and submitted_at unchanged.
C4_SubmitGuarded ==
    [][ Submit =>
          LET a == TheAttempt
              b == TheAttempt'
          IN  /\ a.status = IN_PROGRESS =>
                    /\ b.status = SUBMITTED
                    /\ b.submitted_at = IF a.submitted_at = None
                                        THEN Some(now) ELSE a.submitted_at
              /\ a.status \in {SUBMITTED, GRADED} =>
                    /\ b.status = a.status
                    /\ b.submitted_at = a.submitted_at ]_vars

RECURSIVE C5_Total(_, _)
C5_Total(ans, Q) ==
    IF Q = {} THEN 0
    ELSE LET q == CHOOSE x \in Q : TRUE
             v == ans[q].marks_awarded
         IN  (IF v = None THEN 0 ELSE Val(v)) + C5_Total(ans, Q \ {q})

\* C5: calculate_marks (called as recompute or at the end of
\* auto_grade_all) sets marks_obtained to the sum of marks_awarded over the
\* attempt's answers, a null counting as 0, and sets the status to Graded if
\* every answer has a non-null marks_awarded and to Submitted otherwise.
C5_Recompute ==
    [][ (Recompute \/ GradeCalculate) =>
          LET b == TheAttempt' IN
          /\ b.marks_obtained = Some(C5_Total(answers, DOMAIN answers))
          /\ b.status = IF \A q \in DOMAIN answers : answers[q].marks_awarded # None
                        THEN GRADED ELSE SUBMITTED ]_vars

\* C5 witness: recompute has just run on an attempt with one answer graded
\* with 1 mark and one answer not graded: Submitted with 1 mark.
C5_Witness ==
    /\ last.op = "calculate_marks"
    /\ DOMAIN answers = {1, 2}
    /\ answers[1].marks_awarded = Some(100)
    /\ answers[2].marks_awarded = None
    /\ TheAttempt.status = SUBMITTED
    /\ TheAttempt.marks_obtained = Some(100)

\* What grading writes: the grading columns of the answers and of the attempt
C6_Grades(st) ==
    [answers |-> [q \in DOMAIN st.answers |->
                     <<st.answers[q].is_correct, st.answers[q].marks_awarded>>],
     attempts |-> {<<a.pk, a.marks_obtained, a.status>> : a \in st.attempts}]

\* C6: when auto_grade_all has run twice in a row with nothing changed in
\* between, every answer's is_correct and marks_awarded and the attempt's
\* marks_obtained and status are after the second run as after the first.
C6_Idempotent ==
    Len(runs) = 2 => C6_Grades(runs[1]) = C6_Grades(runs[2])

\* C6 witness: two runs in a row over two answers with full marks, 3 marks
\* in total after the second run.
C6_Witness ==
    /\ Len(runs) = 2
    /\ DOMAIN answers = {1, 2}
    /\ answers[1].marks_awarded = Some(100)
    /\ answers[2].marks_awarded = Some(200)
    /\ TheAttempt.status = GRADED
    /\ TheAttempt.marks_obtained = Some(300)

\* -------------------------------------------------- claims, SpecAutoGrade

\* C7: grading a single-choice or true/false answer sets is_correct to the
\* flag of the selected choice and marks_awarded to question.marks if
\* correct and 0 otherwise, so that marks_awarded is 0 or question.marks
\* and is_correct holds exactly when marks_awarded = question.marks.
C7_SingleChoiceGrade ==
    [][ \A q \in QIds :
          ( /\ GradeAnswer(q)
            /\ questions[q].question_type \in {MCQ_SINGLE, TRUE_FALSE}
            /\ answers[q].selected_choice # None )
          => LET a == answers'[q]
                 full == Some(Hundredths(questions[q].marks))
                 flag == choices[Val(answers[q].selected_choice)].is_correct
             IN  /\ a.is_correct = Some(flag)
                 /\ a.marks_awarded = IF flag THEN full ELSE Some(0)
                 /\ a.marks_awarded \in {Some(0), full}
                 /\ (a.is_correct = Some(TRUE)) <=> (a.marks_awarded = full) ]_vars

\* C8: grading a multiple-choice answer yields 0 <= marks_awarded <=
\* question.marks; selecting exactly the correct choices yields
\* question.marks with is_correct true, selecting nothing yields 0 with
\* is_correct false (which is what the second clause gives way to when the
\* question has no correct choice).
C8_MultipleChoiceRange ==
    [][ \A q \in QIds :
          (GradeAnswer(q) /\ questions[q].question_type = MCQ_MULTIPLE)
          => LET a == answers'[q]
                 S == answers[q].selected_choices
                 full == Hundredths(questions[q].marks)
             IN  /\ a.marks_awarded # None
                 /\ 0 <= Val(a.marks_awarded) /\ Val(a.marks_awarded) <= full
                 /\ (S = correct_choices(q) /\ S # {}) =>
                       a.marks_awarded = Some(full) /\ a.is_correct = Some(TRUE)
                 /\ S = {} =>
                       a.marks_awarded = Some(0) /\ a.is_correct = Some(FALSE) ]_vars

\* C9: grading a multiple-choice answer whose non-empty selection S differs
\* from the correct set C sets is_correct to false and marks_awarded to
\* max(0, (|S /\ C| - |S \ C|) * question.marks / |C|).
C9_PartialCredit ==
    [][ \A q \in QIds :
          ( /\ GradeAnswer(q)
            /\ questions[q].question_type = MCQ_MULTIPLE
            /\ answers[q].selected_choices # {}
            /\ answers[q].selected_choices # correct_choices(q) )
          => LET a == answers'[q]
                 S == answers[q].selected_choices
                 C == correct_choices(q)
                 n == Cardinality(S \cap C) - Cardinality(S \ C)
                 m == questions[q].marks
             IN  /\ a.is_correct = Some(FALSE)
                 /\ a.marks_awarded # None
                 /\ C # {}
                 /\ Val(a.marks_awarded) * Cardinality(C)
                      = IF n > 0 THEN 100 * n * m ELSE 0 ]_vars

\* C10: grading a multiple-choice answer of a question without any correct
\* choice completes without a division by zero and awards 0 marks,
\* whatever the student selected.
C10_NoCorrectChoice ==
    [][ \A q \in QIds :
          ( /\ GradeAnswer(q)
            /\ questions[q].question_type = MCQ_MULTIPLE
            /\ correct_choices(q) = {} )
          => /\ grader'.result # "ZeroDivisionError"
             /\ answers'[q].marks_awarded = Some(0) ]_vars

\* The text t without its leading and trailing blanks, in lower case,
\* spelled out position by position
C11_Trimmed(t) ==
    LET solid == {i \in 1..Len(t) : t[i] # " "} IN
    IF solid = {} THEN <<>>
    ELSE LET lo == CHOOSE i \in solid : \A j \in solid : i <= j
             hi == CHOOSE i \in solid : \A j \in solid : j <= i
         IN  [k \in 1..(hi - lo + 1) |->
                 IF t[lo + k - 1] = "A" THEN "a" ELSE t[lo + k - 1]]

\* C11: grading a short-answer answer with a non-empty text marks it
\* correct with marks_awarded = question.marks exactly when the text,
\* trimmed and lower-cased, is one of the question's stored keys, and
\* otherwise marks it incorrect with 0 marks (so " A " matches key "a").
C11_ShortAnswerMatch ==
    [][ \A q \in QIds :
          ( /\ GradeAnswer(q)
            /\ questions[q].question_type = SHORT_ANSWER
            /\ answers[q].text_answer \notin {None, Some(<<>>)} )
          => LET a == answers'[q]
                 match == \E k \in answer_keys :
                             /\ k.question = q
                             /\ k.text = C11_Trimmed(Val(answers[q].text_answer))
             IN  /\ a.is_correct = Some(match)
                 /\ a.marks_awarded =
                       Some(IF match THEN 100 * questions[q].marks ELSE 0) ]_vars

\* C11 witness: the text " A " has just been graded correct against the
\* stored key "a", with the question's (non-zero) marks.
C11_Witness ==
    /\ last.op = "auto_grade"
    /\ questions[1].question_type = SHORT_ANSWER
    /\ questions[1].marks > 0
    /\ answers[1].text_answer = Some(<<" ", "A", " ">>)
    /\ answers[1].is_correct = Some(TRUE)
    /\ answers[1].marks_awarded = Some(100 * questions[1].marks)

\* C12: grading a short-answer answer whose text is empty or missing
\* completes and records is_correct = false and marks_awarded = 0.
C12_EmptyTextGraded ==
    [][ \A q \in QIds :
          ( /\ GradeAnswer(q)
            /\ questions[q].question_type = SHORT_ANSWER
            /\ answers[q].text_answer \in {None, Some(<<>>)} )
          => /\ grader'.result \notin {"ValidationError", "ZeroDivisionError"}
             /\ answers'[q].is_correct = Some(FALSE)
             /\ answers'[q].marks_awarded = Some(0) ]_vars

\* ----------------------------------------------------- claims, SpecAuthor

\* C13: a create or update of a Question, Choice or ShortAnswerKey whose
\* validation runs while the quiz is not in Draft status ends with a
\* validation error, writes nothing and leaves no write pending.
C13_DraftOnly ==
    [][ ( /\ last'.op \in {"question.clean", "choice.clean", "key.clean"}
          /\ quiz.status # DRAFT )
        => /\ proc'[last'.by].pc = "idle"
           /\ proc'[last'.by].result = "ValidationError"
           /\ questions' = questions
           /\ choices' = choices
           /\ answer_keys' = answer_keys ]_vars

\* C13 witness: on a closed quiz that has a question, a choice and an
\* answer key, the save of a key has just been rejected.
C13_Witness ==
    /\ quiz.status = CLOSED
    /\ QIds # {} /\ CIds # {} /\ answer_keys # {}
    /\ last.op = "key.clean"
    /\ proc[last.by].result = "ValidationError"

\* C14: in every reachable state each single-choice question has at most
\* one choice flagged correct.
C14_OneCorrectChoice ==
    \A q \in QIds :
        questions[q].question_type = MCQ_SINGLE =>
            Cardinality({c \in CIds : choices[c].question = q /\ choices[c].is_correct}) <= 1

\* C15: in every reachable state no short-answer question has a Choice and
\* every ShortAnswerKey belongs to a short-answer question.
C15_ChoicesAndKeysByType ==
    /\ \A c \in CIds : questions[choices[c].question].question_type # SHORT_ANSWER
    /\ \A k \in answer_keys : questions[k.question].question_type = SHORT_ANSWER

\* ------------------------------------------------------- claims, SpecRace

\* C16: in every reachable state each true/false question has at most two
\* choices and each of them is labelled "true" or "false" in any letter
\* case, also when choice creations run concurrently.
C16_TrueFalseChoices ==
    \A q \in QIds :
        questions[q].question_type = TRUE_FALSE =>
            LET own == {c \in CIds : choices[c].question = q} IN
            /\ Cardinality(own) <= 2
            /\ \A c \in own :
                  choices[c].answer \in
                      {<<x, "r", "u", "e">> : x \in {"t", "T"}}
                      \cup {<<x, "a", "l", "s", "e">> : x \in {"f", "F"}}

\* A text without blank at either end and without upper-case letter
C17_IsNormalized(t) ==
    /\ t # <<>> => (t[1] # " " /\ t[Len(t)] # " ")
    /\ \A i \in 1..Len(t) : t[i] \notin {"A", "T", "F"}

C17_KeysNormalizedUnique ==
    /\ \A k \in answer_keys : C17_IsNormalized(k.text)
    /\ \A k1, k2 \in answer_keys :
          (k1.question = k2.question /\ k1.text = k2.text) => k1 = k2

C17_DuplicateRejected ==
    \A p \in Procs :
        ( /\ proc[p].pc = "key.write"
          /\ proc'[p].pc = "idle"
          /\ \E k \in answer_keys :
                /\ Some(k.pk) # proc[p].inst.pk
                /\ k.question = proc[p].inst.row.question
                /\ k.text = proc[p].inst.row.text )
        => /\ proc'[p].result = "IntegrityError"
           /\ answer_keys' = answer_keys

\* C17: every stored ShortAnswerKey text is trimmed and lower-cased, no two
\* keys of a question have the same stored text, and the save of a key
\* whose normalized text another key of the question already has is
\* rejected, also when key saves run concurrently.
C17_KeysNormalized ==
    []C17_KeysNormalizedUnique /\ [][C17_DuplicateRejected]_vars

\* C17 witness: of two concurrent saves of keys that normalize to "a", one
\* is stored and the other has just been refused by the unique constraint.
C17_Witness ==
    /\ last.op = "key.write"
    /\ proc[last.by].result = "IntegrityError"
    /\ \E k \in answer_keys : k.question = 2 /\ k.text = <<"a">>

\* C20: in every reachable state no two questions of the quiz have the same
\* order, also when questions without an explicit order are created
\* concurrently.
C20_OrdersUnique ==
    \A q1, q2 \in QIds : questions[q1].order = questions[q2].order => q1 = q2

\* ----------------------------------------------------- claims, SpecAnswer

\* C18: every stored StudentAnswer has the shape its question's type
\* requires: on a single-choice or true/false question a selected choice of
\* that question and no text; on a short-answer question a non-empty text
\* and no selected choice.
C18_AnswerShape ==
    \A q \in DOMAIN answers :
        LET a == answers[q]
            t == questions[q].question_type
        IN  /\ t \in {MCQ_SINGLE, TRUE_FALSE} =>
                  /\ a.selected_choice # None
                  /\ \A c \in a.selected_choice :
                        c \in CIds /\ choices[c].question = q
                  /\ a.text_answer \in {None, Some(<<>>)}
            /\ t = SHORT_ANSWER =>
                  /\ a.text_answer \notin {None, Some(<<>>)}
                  /\ a.selected_choice = None

\* ------------------------------------------------------- claims, SpecQuiz

\* C19: a write of a Quiz whose end_time is not after its start_time is
\* rejected, so that every stored quiz with both times set has
\* end_time > start_time.
C19_EndAfterStart ==
    (quiz.start_time # None /\ quiz.end_time # None)
        => Val(quiz.end_time) > Val(quiz.start_time)

\* ----------------------------------------------- claims, SpecGrade (state)

\* C21: if auto_grade_all fails while grading one of the attempt's answers,
\* no answer of the attempt has a changed is_correct or marks_awarded and
\* the attempt's marks_obtained and status are as before the call.
C21_NoPartialWrites ==
    [][ ( /\ grader.pc = "grading"
          /\ grader.pending # {}
          /\ grader'.pc = "idle"
          /\ grader'.result \in {"ValidationError", "ZeroDivisionError"} )
        => /\ ~grader.wrote
           /\ answers' = answers
           /\ \A a \in attempts' :
                 a.pk = grader.att.pk
                    => /\ a.marks_obtained = grader.att.marks_obtained
                       /\ a.status = grader.att.status ]_vars

\* C23: every attempt whose status is Submitted or Graded has submitted_at
\* set, after any sequence of recording answers, submit, auto_grade_all and
\* calculate_marks.
C23_SubmittedAtSet ==
    \A a \in attempts : a.status \in {SUBMITTED, GRADED} => a.submitted_at # None

\* C27: an attempt whose status is Graded has every one of its answers
\* with a non-null marks_awarded and marks_obtained equal to the sum of
\* those marks_awarded.
C27_GradedComplete ==
    \A a \in attempts :
        a.status = GRADED
           => /\ \A q \in DOMAIN answers : answers[q].marks_awarded # None
              /\ a.marks_obtained = Some(SumOver(answers, DOMAIN answers))

\* ------------------------------------------------------- claims, SpecTerm

\* C26: in every reachable state at most one AcademicTerm has
\* is_current = true, also when two saves of a current term interleave.
C26_OneCurrentTerm ==
    Cardinality({t \in DOMAIN terms : terms[t].is_current}) <= 1

\* ------------------------------------------------- claims, SpecSubmission

\* C30: a Submission's attempt_number is assigned once, at creation: the
\* save of an existing submission never changes its stored attempt_number
\* and is never rejected because its attempt_number clashes with another
\* submission's.
C30_AttemptNumberKept ==
    [][ \A p \in Procs :
          ( /\ proc[p].pc = "submission.write"
            /\ proc[p].inst.pk # None
            /\ proc'[p].pc = "idle" )
          => /\ proc'[p].result # "IntegrityError"
             /\ \A i \in proc[p].inst.pk :
                   submissions'[i].attempt_number = submissions[i].attempt_number ]_vars

\* ---------------------------------------------------- claims, SpecProfile

\* The number a sequence of decimal digits denotes
RECURSIVE C22_Value(_)
C22_Value(s) ==
    IF s = <<>> THEN 0
    ELSE 10 * C22_Value(SubSeq(s, 1, Len(s) - 1))
         + (CHOOSE d \in 0..9 : DigitChars[d + 1] = s[Len(s)])

C25_NoStaleGrade ==
    [][ ( /\ grader.pc = "grading"
          /\ grader.pending = {}
          /\ grader'.pc = "idle"
          /\ grader'.result = "saved" )
        => \A q \in DOMAIN answers' :
              answers'[q].marks_awarded # None
                 => LET res == auto_grade(answers[q], answers[q].selected_choices) IN
                    /\ res.outcome = "saved"
                    /\ res.row.is_correct = answers'[q].is_correct
                    /\ res.row.marks_awarded = answers'[q].marks_awarded ]_vars

\* -------------------------------------------------- claims, SpecOverwrite

\* C28: auto_grade_all leaves the recorded response of every answer
\* (selected choice, selected choices and text) unchanged, also when the
\* response was updated between the run's reading of the answer and its
\* writing of the grade.
C28_ResponseKept ==
    [][ last'.op \in {"auto_grade", "auto_grade_all.calculate_marks"}
        => \A q \in DOMAIN answers :
              /\ answers'[q].selected_choice = answers[q].selected_choice
              /\ answers'[q].selected_choices = answers[q].selected_choices
              /\ answers'[q].text_answer = answers[q].text_answer ]_vars

\* -------------------------------------------------- claims, SpecGradeRace

\* C24: when two auto_grade_all calls on the same attempt interleave, once
\* both have completed the attempt's marks_obtained equals the sum of the
\* stored marks_awarded of its answers, and its status is Graded exactly
\* when every answer has a non-null marks_awarded.
C24_NoStaleSum ==
    (\A p \in Procs : proc[p].result = "saved")
       => \A a \in attempts :
             /\ a.marks_obtained = Some(SumOver(answers, DOMAIN answers))
             /\ a.status = GRADED
                   <=> \A q \in DOMAIN answers : answers[q].marks_awarded # None

\* Every run has completed, the answers are all graded and
\* the attempt carries the full mark
C24_Witness ==
    /\ \A p \in Procs : proc[p].result = "saved"
    /\ \E a \in attempts : a.status = GRADED /\ a.marks_obtained = Some(Hundredths(3))

\* ----------------------------------------------------- claims, SpecRemark

\* C29: after auto_grade_all or calculate_marks, the attempt's
\* marks_obtained is at least 0 and at most the quiz's total_marks (the sum
\* of the marks of the quiz's questions).
C29_WithinTotal ==
    [][ last'.op \in {"calculate_marks", "auto_grade_all.calculate_marks"}
        => \A a \in attempts' :
              a.marks_obtained # None
                 => /\ 0 <= Val(a.marks_obtained)
                    /\ Val(a.marks_obtained) <= Hundredths(total_marks') ]_vars

====
